---- MODULE Spec2Model ----
(***************************************************************************)
(* Model of rich/progress.py: the Task record and its derived properties,  *)
(* the Progress registry (add_task, start, stop, update, remove_task,      *)
(* refresh), the RefreshThread scheduler and the session enter/exit.       *)
(*                                                                         *)
(* Conventions.  An Optional value is a sequence of length 0 (None) or 1.  *)
(* A dict keeps insertion order, so _tasks is a sequence of Task records   *)
(* keyed by their id field.  monotonic() reads the variable now.  Floats   *)
(* are exact integers or rationals <<numerator, denominator>>.             *)
(***************************************************************************)
EXTENDS Integers, Sequences, FiniteSets, TLC

VARIABLES
    _tasks,          \* Progress._tasks: Dict[TaskID, Task], in insertion order
    _task_index,     \* Progress._task_index
    _refresh_count,  \* Progress._refresh_count
    _live_render,    \* the table last given to LiveRender.set_renderable
    now,             \* the value monotonic() returns
    result,          \* outcome of the last registry call of the owner thread
    created,         \* number of Task objects constructed so far (object identity)
    removed,         \* ids deleted by remove_task so far
    history,         \* <<id, uid>> pairs ever stored in _tasks
    _lock,           \* Progress._lock: the RLock's owner and recursion count
    pc,              \* where each thread is in the method it runs
    local,           \* the local variables of each thread's update() call
    done,            \* RefreshThread.done: the Event's flag
    cursor,          \* whether the console shows the cursor
    auto_refresh,    \* Progress.auto_refresh
    session,         \* what the current __exit__ did, and who refreshed
    before_add,      \* _tasks before add_task, when add_task was the last call
    _renderable_cache, \* ProgressColumn._renderable_cache of each column
    column_call      \* outcome of the last ProgressColumn.__call__

thrVars == <<_lock, pc, local, done, cursor, auto_refresh, session>>

colVars == <<_renderable_cache, column_call>>

vars == <<_tasks, _task_index, _refresh_count, _live_render, now, result,
          created, removed, history, thrVars, before_add, colVars>>

None == <<>>
Some(v) == <<v>>

----------------------------------------------------------------------------
(* Bounds of the model *)

MaxAdds == 2          \* add_task calls in Spec
MaxSamples == 1       \* samples per task in Spec
MaxRefresh == 2       \* value of _refresh_count at which refreshing stops
NumThreads == 2       \* threads calling update in SpecThreads
CallsPerThread == 2   \* update calls of each thread in SpecThreads
TaskMaxTime == 2      \* clock range in SpecTask
TaskMaxSamples == 2   \* samples per task in SpecTask

\* Progress.speed_estimate_period (a constructor argument), in clock ticks
speed_estimate_period == 1

----------------------------------------------------------------------------
(* Arithmetic *)

Abs(n) == IF n < 0 THEN -n ELSE n

\* int(n/d) for d > 0: truncation toward zero
TruncDiv(n, d) == IF n >= 0 THEN n \div d ELSE -((-n) \div d)

\* round(n/d) for d # 0: Python 3 rounds half to even
RoundHalfEven(n, d) ==
    LET nn == IF d < 0 THEN -n ELSE n
        dd == Abs(d)
        q == nn \div dd
        r == nn % dd
    IN  IF 2 * r < dd THEN q
        ELSE IF 2 * r > dd THEN q + 1
        ELSE IF q % 2 = 0 THEN q ELSE q + 1

RECURSIVE SumCompleted(_)
SumCompleted(samples) ==
    IF samples = <<>> THEN 0
    ELSE Head(samples).completed + SumCompleted(Tail(samples))

----------------------------------------------------------------------------
(* class Task *)

_ProgressSample(timestamp, completed) ==
    [timestamp |-> timestamp, completed |-> completed]

\* uid, completed0 and evicted are history fields: the object's identity, its
\* completed value at construction, whether a sample of it was ever evicted
Task(id, name, total, completed, visible, fields, uid) ==
    [id |-> id, name |-> name, total |-> total, completed |-> completed,
     visible |-> visible, fields |-> fields,
     start_time |-> None, stop_time |-> None, _progress |-> <<>>,
     uid |-> uid, completed0 |-> completed, evicted |-> FALSE]

Task_remaining(task) == task.total - task.completed

\* Task.finished with > for >=: a task with completed = total is not finished
Task_finished_Strict(task) == task.completed > task.total

Task_finished(task) == task.completed >= task.total

\* Task.elapsed without the stop_time branch: the clock keeps running
Task_elapsed_IgnoresStop(task, current_time) ==
    IF task.start_time = None THEN None
    ELSE Some(current_time - task.start_time[1])

\* Task.elapsed when monotonic() returns current_time
Task_elapsed(task, current_time) ==
    IF task.start_time = None THEN None
    ELSE IF task.stop_time # None
         THEN Some(task.stop_time[1] - task.start_time[1])
         ELSE Some(current_time - task.start_time[1])

\* Task.percentage without min(100, max(0.0, ...)), a rational <<n, d>>
Task_percentage_NoClamp(task) ==
    IF task.total = 0 THEN <<0, 1>>
    ELSE IF task.total > 0 THEN <<task.completed * 100, task.total>>
         ELSE <<-(task.completed * 100), -task.total>>

\* Task.percentage, a rational <<n, d>> with d > 0
Task_percentage(task) ==
    IF task.total = 0 THEN <<0, 1>>
    ELSE LET completed == IF task.total > 0
                          THEN <<task.completed * 100, task.total>>
                          ELSE <<-(task.completed * 100), -task.total>>
             floor_ == IF completed[1] < 0 THEN <<0, 1>> ELSE completed
         IN  IF floor_[1] > 100 * floor_[2] THEN <<100, 1>> ELSE floor_

\* Optional rational <<n, d>> with d > 0
Task_speed(task) ==
    IF task.start_time = None THEN Some(<<0, 1>>)
    ELSE LET progress == task._progress IN
         IF progress = <<>> THEN None
         ELSE LET total_time == progress[Len(progress)].timestamp
                                  - progress[1].timestamp
                  total_completed == SumCompleted(Tail(progress))
              IN  IF total_time = 0 THEN None
                  ELSE IF total_time > 0
                       THEN Some(<<total_completed, total_time>>)
                       ELSE Some(<<-total_completed, -total_time>>)

Returns(v) == [exc |-> "", value |-> v]
Raises(e) == [exc |-> e, value |-> None]

Task_time_remaining(task) ==
    IF Task_finished(task) THEN Returns(Some(0))
    ELSE LET speed == Task_speed(task) IN
         IF speed = None THEN Returns(None)
         ELSE LET int_speed == TruncDiv(speed[1][1], speed[1][2]) IN
              IF int_speed = 0 THEN Raises("ZeroDivisionError")
              ELSE Returns(Some(RoundHalfEven(Task_remaining(task), int_speed)))

----------------------------------------------------------------------------
(* Progress._tasks as an insertion-ordered dict *)

Keys(d) == {d[i].id : i \in 1..Len(d)}

IndexOf(d, id) == CHOOSE i \in 1..Len(d) : d[i].id = id

GetItem(d, id) == d[IndexOf(d, id)]

\* d[id] = task: a new key goes last, an existing key keeps its place
SetItem(d, id, task) ==
    IF id \in Keys(d) THEN [d EXCEPT ![IndexOf(d, id)] = task]
    ELSE Append(d, task)

\* del d[id]
DelItem(d, id) == SelectSeq(d, LAMBDA t : t.id # id)

\* dict.update(other) on a dict held as a set of <<key, value>> pairs
DictUpdate(d, other) ==
    {p \in d : \A q \in other : q[1] # p[1]} \cup other

----------------------------------------------------------------------------
(* Progress._table with columns = ("{task.name}",): one row per visible    *)
(* task, in the order of _tasks                                            *)

Row(task) == [task |-> task.id, cells |-> <<task.name>>]

RECURSIVE Rows(_)
Rows(d) ==
    IF d = <<>> THEN <<>>
    ELSE IF Head(d).visible THEN <<Row(Head(d))>> \o Rows(Tail(d))
         ELSE Rows(Tail(d))

Progress__table(d) == Rows(d)

----------------------------------------------------------------------------
(* class Progress: each method run by the owner thread with no other      *)
(* thread active, so the method is one step                                *)

Result(op, exc, value) == [exc |-> exc, value |-> value]

\* while _progress and _progress[0].timestamp < old_sample_time: popleft()
RECURSIVE Evict(_, _)
Evict(_progress, old_sample_time) ==
    IF _progress # <<>> /\ Head(_progress).timestamp < old_sample_time
    THEN Evict(Tail(_progress), old_sample_time)
    ELSE _progress

\* the assignment made for update(visible=...)
UpdateVisible(task, visible) == [task EXCEPT !.visible = TRUE]

\* ApplyProgress with the last two assignments swapped: advance is added
\* after the absolute completed
ApplyProgress_AdvanceLast(task, total, completed, advance) ==
    LET t1 == IF total # None THEN [task EXCEPT !.total = total[1]] ELSE task
        t2 == IF completed # None
              THEN [t1 EXCEPT !.completed = completed[1]] ELSE t1
    IN  IF advance # None THEN [t2 EXCEPT !.completed = @ + advance[1]] ELSE t2

\* update(): the total, advance and completed arguments, in the code's order
ApplyProgress(task, total, completed, advance) ==
    LET t1 == IF total # None THEN [task EXCEPT !.total = total[1]] ELSE task
        t2 == IF advance # None
              THEN [t1 EXCEPT !.completed = @ + advance[1]] ELSE t1
    IN  IF completed # None THEN [t2 EXCEPT !.completed = completed[1]] ELSE t2

\* update(): visible, fields, then the eviction and the new sample
RecordUpdate(task, completed_start, current_time, visible, fields) ==
    LET t4 == IF visible # None THEN UpdateVisible(task, visible[1]) ELSE task
        t5 == [t4 EXCEPT !.fields = DictUpdate(@, fields)]
        update_completed == t5.completed - completed_start
        old_sample_time == current_time - speed_estimate_period
        kept == Evict(t5._progress, old_sample_time)
    IN  [t5 EXCEPT
           !._progress = Append(kept, _ProgressSample(current_time, update_completed)),
           !.evicted = @ \/ kept # t5._progress]

\* the body of update() under the lock, on the task found
UpdateTask(task, current_time, total, completed, advance, visible, fields) ==
    RecordUpdate(ApplyProgress(task, total, completed, advance), task.completed,
                 current_time, visible, fields)

Progress_start(task_id) ==
    /\ IF task_id \in Keys(_tasks)
       THEN /\ _tasks' = SetItem(_tasks, task_id,
                            [GetItem(_tasks, task_id) EXCEPT !.start_time = Some(now)])
            /\ result' = Result("start", "", None)
       ELSE /\ result' = Result("start", "KeyError", None)
            /\ UNCHANGED _tasks
    /\ UNCHANGED <<_task_index, _refresh_count, _live_render, now, created,
                   removed, history, colVars>>
    /\ before_add' = None
    /\ UNCHANGED thrVars

Progress_stop(task_id) ==
    /\ IF task_id \in Keys(_tasks)
       THEN LET task == GetItem(_tasks, task_id)
                current_time == now
                t1 == IF task.start_time = None
                      THEN [task EXCEPT !.start_time = Some(current_time)]
                      ELSE task
            IN  /\ _tasks' = SetItem(_tasks, task_id,
                                [t1 EXCEPT !.stop_time = Some(current_time)])
                /\ result' = Result("stop", "", None)
       ELSE /\ result' = Result("stop", "KeyError", None)
            /\ UNCHANGED _tasks
    /\ UNCHANGED <<_task_index, _refresh_count, _live_render, now, created,
                   removed, history, colVars>>
    /\ before_add' = None
    /\ UNCHANGED thrVars

Progress_update(task_id, total, completed, advance, visible, fields, maxSamples) ==
    /\ IF task_id \in Keys(_tasks)
       THEN /\ Len(GetItem(_tasks, task_id)._progress) < maxSamples
            /\ _tasks' = SetItem(_tasks, task_id,
                            UpdateTask(GetItem(_tasks, task_id), now, total,
                                       completed, advance, visible, fields))
            /\ result' = Result("update", "", None)
       ELSE /\ result' = Result("update", "KeyError", None)
            /\ UNCHANGED _tasks
    /\ UNCHANGED <<_task_index, _refresh_count, _live_render, now, created,
                   removed, history, colVars>>
    /\ before_add' = None
    /\ UNCHANGED thrVars

\* the renderer (console.print) either returns or raises
Progress_refresh(renderer_raises) ==
    /\ _refresh_count < MaxRefresh
    /\ _live_render' = Progress__table(_tasks)
    /\ IF renderer_raises
       THEN /\ result' = Result("refresh", "RenderError", None)
            /\ UNCHANGED _refresh_count
       ELSE /\ result' = Result("refresh", "", None)
            /\ _refresh_count' = _refresh_count + 1
    /\ UNCHANGED <<_tasks, _task_index, now, created, removed, history, colVars>>
    /\ before_add' = None
    /\ UNCHANGED thrVars

\* the value of _task_index when add_task leaves, given its value on entry
\* and whether the method reached its return statement
NextTaskIndex(index, returned) == IF returned THEN index + 1 ELSE index

\* _tasks after add_task has constructed the task, stored it and started it
AddTaskStore(d, index, name, start_, total, completed, visible, fields, uid, current_time) ==
    LET task == Task(index, name, total, completed, visible, fields, uid)
        started == IF start_ THEN [task EXCEPT !.start_time = Some(current_time)]
                   ELSE task
    IN  SetItem(d, index, started)

Progress_add_task(name, start_, total, completed, visible, fields, renderer_raises) ==
    /\ created < MaxAdds
    /\ _refresh_count < MaxRefresh
    /\ LET stored == AddTaskStore(_tasks, _task_index, name, start_, total,
                                  completed, visible, fields, created, now)
       IN  /\ _tasks' = stored
           /\ created' = created + 1
           /\ history' = history \cup {<<_task_index, created>>}
           /\ _live_render' = Progress__table(stored)
           /\ IF renderer_raises
              THEN /\ result' = Result("add_task", "RenderError", None)
                   /\ UNCHANGED _refresh_count
              ELSE /\ result' = Result("add_task", "", Some(_task_index))
                   /\ _refresh_count' = _refresh_count + 1
           /\ _task_index' = NextTaskIndex(_task_index, ~renderer_raises)
    /\ before_add' = Some(_tasks)
    /\ UNCHANGED <<now, removed, colVars>>
    /\ UNCHANGED thrVars

Progress_remove_task(task_id) ==
    /\ IF task_id \in Keys(_tasks)
       THEN /\ _tasks' = DelItem(_tasks, task_id)
            /\ removed' = removed \cup {task_id}
            /\ result' = Result("remove_task", "", None)
       ELSE /\ result' = Result("remove_task", "KeyError", None)
            /\ UNCHANGED <<_tasks, removed>>
    /\ UNCHANGED <<_task_index, _refresh_count, _live_render, now, created,
                   history, colVars>>
    /\ before_add' = None
    /\ UNCHANGED thrVars

\* Progress.finished with any() for all(): an empty registry is not finished
Progress_finished_Any(d) == \E i \in 1..Len(d) : Task_finished(d[i])

\* Progress.finished, read under the lock
Progress_finished(d) ==
    IF Len(d) = 0 THEN TRUE
    ELSE \A i \in 1..Len(d) : Task_finished(d[i])

\* Progress.tasks_ids, read under the lock: the ids in insertion order
Progress_tasks_ids(d) == [i \in 1..Len(d) |-> d[i].id]

\* time passes
Tick(maxTime) ==
    /\ now < maxTime
    /\ now' = now + 1
    /\ UNCHANGED <<_tasks, _task_index, _refresh_count, _live_render, result,
                   created, removed, history, before_add, colVars>>
    /\ UNCHANGED thrVars

----------------------------------------------------------------------------
(* Spec: the registry with several tasks *)

TaskIDs == 0..MaxAdds
Optional(S) == {None} \cup {Some(v) : v \in S}
FieldArgs == {{}, {<<"k", 1>>}}

\* the owner thread alone, outside any session and any call
NoThreads ==
    /\ _lock = [owner |-> None, count |-> 0]
    /\ pc = <<>>
    /\ local = <<>>
    /\ done = FALSE
    /\ cursor = TRUE
    /\ auto_refresh = FALSE
    /\ session = <<>>
    /\ before_add = None
    /\ _renderable_cache = <<>>
    /\ column_call = <<>>

Init ==
    /\ NoThreads
    /\ _tasks = <<>>
    /\ _task_index = 0
    /\ _refresh_count = 0
    /\ _live_render = <<>>
    /\ now = 0
    /\ result = Result("init", "", None)
    /\ created = 0
    /\ removed = {}
    /\ history = {}

Next ==
    \/ \E visible \in BOOLEAN, renderer_raises \in BOOLEAN :
          Progress_add_task("X", TRUE, 1, 0, visible, {}, renderer_raises)
    \/ \E task_id \in TaskIDs : Progress_start(task_id)
    \/ \E task_id \in TaskIDs : Progress_stop(task_id)
    \/ \E task_id \in TaskIDs, visible \in Optional(BOOLEAN),
          fields \in FieldArgs :
          Progress_update(task_id, None, None, None, visible, fields,
                          MaxSamples)
    \/ \E task_id \in TaskIDs : Progress_remove_task(task_id)
    \/ \E renderer_raises \in BOOLEAN : Progress_refresh(renderer_raises)

Spec == Init /\ [][Next]_vars

----------------------------------------------------------------------------
(* SpecTask: one task, added to a new registry, with time passing *)

AddTotals == {0, 3}
AddCompleted == {0}
UpdateTotals == {2}
UpdateCompleted == {0, 3}
UpdateAdvances == {1, 2}

InitTask ==
    \E start_ \in BOOLEAN, total \in AddTotals, completed \in AddCompleted :
        /\ NoThreads
        /\ _tasks = AddTaskStore(<<>>, 0, "X", start_, total, completed, TRUE,
                                 {}, 0, 0)
        /\ _task_index = 1
        /\ _refresh_count = 1
        /\ _live_render = Progress__table(_tasks)
        /\ now = 0
        /\ result = Result("add_task", "", Some(0))
        /\ created = 1
        /\ removed = {}
        /\ history = {<<0, 0>>}

NextTask ==
    \/ Progress_start(0)
    \/ Progress_stop(0)
    \/ \E total \in Optional(UpdateTotals), completed \in Optional(UpdateCompleted),
          advance \in Optional(UpdateAdvances) :
          Progress_update(0, total, completed, advance, None, {},
                          TaskMaxSamples)
    \/ Tick(TaskMaxTime)

SpecTask == InitTask /\ [][NextTask]_vars

----------------------------------------------------------------------------
(* SpecElapsed: one task started, stopped and updated while time passes *)

NextElapsed ==
    \/ Progress_start(0)
    \/ Progress_stop(0)
    \/ Progress_update(0, None, None, Some(1), None, {}, TaskMaxSamples)
    \/ Tick(TaskMaxTime)

SpecElapsed == InitTask /\ [][NextElapsed]_vars

----------------------------------------------------------------------------

(* SpecFinished: a registry whose tasks differ in completed and total *)

FinishedTotals == {0, 1}
FinishedCompleted == {0, 1}

NextFinished ==
    \/ \E total \in FinishedTotals, completed \in FinishedCompleted,
          renderer_raises \in BOOLEAN :
          Progress_add_task("X", TRUE, total, completed, TRUE, {},
                            renderer_raises)
    \/ \E task_id \in TaskIDs, completed \in FinishedCompleted :
          Progress_update(task_id, None, Some(completed), None, None, {},
                          MaxSamples)
    \/ \E task_id \in TaskIDs : Progress_remove_task(task_id)

SpecFinished == Init /\ [][NextFinished]_vars

----------------------------------------------------------------------------

(* SpecPercent: one task whose total and completed take any sign *)

PercentTotals == {-2, 0, 2}
PercentCompleted == {-3, 1, 3}
PercentAdvances == {-1, 1}

InitPercent ==
    \E total \in PercentTotals, completed \in PercentCompleted :
        /\ NoThreads
        /\ _tasks = AddTaskStore(<<>>, 0, "X", TRUE, total, completed, TRUE,
                                 {}, 0, 0)
        /\ _task_index = 1
        /\ _refresh_count = 1
        /\ _live_render = Progress__table(_tasks)
        /\ now = 0
        /\ result = Result("add_task", "", Some(0))
        /\ created = 1
        /\ removed = {}
        /\ history = {<<0, 0>>}

NextPercent ==
    \E total \in Optional(PercentTotals),
       completed \in Optional(PercentCompleted),
       advance \in Optional(PercentAdvances) :
       Progress_update(0, total, completed, advance, None, {}, TaskMaxSamples)

SpecPercent == InitPercent /\ [][NextPercent]_vars

----------------------------------------------------------------------------

(* class ProgressColumn.  A renderable is <<"Bar", total, completed>> or    *)
(* <<"Text", seconds>>, with seconds = None for the text "?".               *)

Columns == {"BarColumn", "TimeRemainingColumn"}

\* TimeRemainingColumn.max_refresh, in clock ticks
TimeRemainingColumn_max_refresh == 1

max_refresh(column) ==
    IF column = "TimeRemainingColumn" THEN Some(TimeRemainingColumn_max_refresh)
    ELSE None

BarColumn_render(task) == Returns(<<"Bar", task.total, task.completed>>)

\* floor() of the int that round() returned is that int, and str() of a
\* timedelta of whole seconds determines the seconds
TimeRemainingColumn_render(task) ==
    LET remaining == Task_time_remaining(task)
    IN  IF remaining.exc # "" THEN remaining
        ELSE Returns(<<"Text", remaining.value>>)

Column_render(column, task) ==
    IF column = "TimeRemainingColumn" THEN TimeRemainingColumn_render(task)
    ELSE BarColumn_render(task)

\* ProgressColumn.__call__(task) when monotonic() returns current_time: the
\* column's cache afterwards, whether render was called, and the outcome
ProgressColumn___call__(cache, column, task, current_time) ==
    LET entry == cache[task.id]
        cached == /\ max_refresh(column) # None
                  /\ entry # None
                  /\ entry[1][1] + max_refresh(column)[1] > current_time
    IN  IF cached
        THEN [cache |-> cache, rendered |-> FALSE, outcome |-> Returns(entry[1][2])]
        ELSE LET renderable == Column_render(column, task)
             IN  IF renderable.exc # ""
                 THEN [cache |-> cache, rendered |-> TRUE, outcome |-> renderable]
                 ELSE [cache |-> [cache EXCEPT ![task.id] =
                                    Some(<<current_time, renderable.value>>)],
                       rendered |-> TRUE, outcome |-> renderable]

\* a column of the Progress is called with one of its tasks, as _table does
ProgressColumn_call(column, task_id) ==
    /\ task_id \in Keys(_tasks)
    /\ LET call == ProgressColumn___call__(_renderable_cache[column], column,
                                           GetItem(_tasks, task_id), now)
       IN  /\ _renderable_cache' = [_renderable_cache EXCEPT ![column] = call.cache]
           /\ column_call' = [column |-> column, task_id |-> task_id,
                              rendered |-> call.rendered, outcome |-> call.outcome]
    /\ UNCHANGED <<_tasks, _task_index, _refresh_count, _live_render, now, result,
                   created, removed, history, before_add>>
    /\ UNCHANGED thrVars

----------------------------------------------------------------------------
(* SpecColumn: a Progress with the two columns and two tasks, the first of  *)
(* which is updated while time passes                                       *)

ColumnAdvances == {1}

InitColumn ==
    /\ _tasks = AddTaskStore(AddTaskStore(<<>>, 0, "X", TRUE, 3, 0, TRUE, {}, 0, 0),
                             1, "Y", TRUE, 3, 0, TRUE, {}, 1, 0)
    /\ _task_index = 2
    /\ _refresh_count = 2
    /\ _live_render = Progress__table(_tasks)
    /\ now = 0
    /\ result = Result("add_task", "", Some(1))
    /\ created = 2
    /\ removed = {}
    /\ history = {<<0, 0>>, <<1, 1>>}
    /\ _lock = [owner |-> None, count |-> 0]
    /\ pc = <<>>
    /\ local = <<>>
    /\ done = FALSE
    /\ cursor = TRUE
    /\ auto_refresh = FALSE
    /\ session = <<>>
    /\ before_add = None
    /\ _renderable_cache = [column \in Columns |-> [task_id \in 0..1 |-> None]]
    /\ column_call = <<>>

NextColumn ==
    \/ \E advance \in Optional(ColumnAdvances) :
          Progress_update(0, None, None, advance, None, {}, TaskMaxSamples)
    \/ Tick(TaskMaxTime)
    \/ \E column \in Columns, task_id \in 0..1 :
          ProgressColumn_call(column, task_id)

SpecColumn == InitColumn /\ [][NextColumn]_vars

----------------------------------------------------------------------------

(* Threads.  Thread 0 is the RefreshThread worker, thread 1 the owner of    *)
(* the Progress, the others further callers.  A method is a sequence of     *)
(* steps; a step under the lock is enabled only for the lock's owner.       *)

Worker == 0
Main == 1
Threads == 1..NumThreads

\* a lock without exclusion: acquiring never waits
LockFree_NoExclusion(t) == TRUE

\* a lock that is not reentrant: acquiring waits also for its own holder
LockFree_NotReentrant(t) == _lock.owner = None

\* RLock.acquire() returns for thread t
LockFree(t) == _lock.owner = None \/ _lock.owner = Some(t)

Acquire(t) ==
    IF _lock.owner = Some(t) THEN [_lock EXCEPT !.count = @ + 1]
    ELSE [owner |-> Some(t), count |-> 1]

Release(t) ==
    IF _lock.count <= 1 THEN [owner |-> None, count |-> 0]
    ELSE [_lock EXCEPT !.count = @ - 1]

\* task is the uid of the Task object a call holds a reference to
NoLocals == [current_time |-> 0, completed_start |-> 0, loaded |-> 0, calls |-> 0,
             task |-> None]

\* update(), line 327: current_time = monotonic(), before the lock is taken
update_time(t, maxCalls) ==
    /\ pc[t] = "idle"
    /\ local[t].calls < maxCalls
    /\ local' = [local EXCEPT ![t].current_time = now]
    /\ pc' = [pc EXCEPT ![t] = "acquire"]
    /\ UNCHANGED <<_tasks, _task_index, _refresh_count, _live_render, now, result,
                   created, removed, history, before_add, colVars, _lock, done, cursor, auto_refresh,
                   session>>

\* update(), line 328: with self._lock
update_acquire(t) ==
    /\ pc[t] = "acquire"
    /\ LockFree(t)
    /\ _lock' = Acquire(t)
    /\ pc' = [pc EXCEPT ![t] = "lookup"]
    /\ UNCHANGED <<_tasks, _task_index, _refresh_count, _live_render, now, result,
                   created, removed, history, before_add, colVars, local, done, cursor, auto_refresh,
                   session>>

\* update(), lines 329-333: the lookup (KeyError leaves the with block),
\* completed_start and the total argument
update_lookup(t, task_id, total) ==
    /\ pc[t] = "lookup"
    /\ IF task_id \in Keys(_tasks)
       THEN LET task == GetItem(_tasks, task_id) IN
            /\ local' = [local EXCEPT ![t].completed_start = task.completed]
            /\ _tasks' = SetItem(_tasks, task_id,
                                 ApplyProgress(task, total, None, None))
            /\ pc' = [pc EXCEPT ![t] = "load"]
            /\ UNCHANGED _lock
       ELSE /\ _lock' = Release(t)
            /\ local' = [local EXCEPT ![t].calls = @ + 1]
            /\ pc' = [pc EXCEPT ![t] = "idle"]
            /\ UNCHANGED _tasks
    /\ UNCHANGED <<_task_index, _refresh_count, _live_render, now, result,
                   created, removed, history, before_add, colVars, done, cursor, auto_refresh, session>>

\* update(), line 335: task.completed += advance reads task.completed ...
update_load(t, task_id, advance) ==
    /\ pc[t] = "load"
    /\ IF advance # None
       THEN /\ local' = [local EXCEPT ![t].loaded = GetItem(_tasks, task_id).completed]
            /\ pc' = [pc EXCEPT ![t] = "store"]
       ELSE /\ pc' = [pc EXCEPT ![t] = "rest"]
            /\ UNCHANGED local
    /\ UNCHANGED <<_tasks, _task_index, _refresh_count, _live_render, now, result,
                   created, removed, history, before_add, colVars, _lock, done, cursor, auto_refresh,
                   session>>

\* ... and then writes the sum back
update_store(t, task_id, advance) ==
    /\ pc[t] = "store"
    /\ _tasks' = SetItem(_tasks, task_id,
                         [GetItem(_tasks, task_id) EXCEPT
                            !.completed = local[t].loaded + advance[1]])
    /\ pc' = [pc EXCEPT ![t] = "rest"]
    /\ UNCHANGED <<_task_index, _refresh_count, _live_render, now, result,
                   created, removed, history, before_add, colVars, _lock, local, done, cursor,
                   auto_refresh, session>>

\* update(), lines 336-348: completed, visible, fields, the eviction and the
\* new sample; then the with block releases the lock and the call returns
update_rest(t, task_id, completed, visible, fields) ==
    /\ pc[t] = "rest"
    /\ _tasks' = SetItem(_tasks, task_id,
                         RecordUpdate(ApplyProgress(GetItem(_tasks, task_id), None,
                                                    completed, None),
                                      local[t].completed_start,
                                      local[t].current_time, visible, fields))
    /\ _lock' = Release(t)
    /\ local' = [local EXCEPT ![t].calls = @ + 1]
    /\ pc' = [pc EXCEPT ![t] = "idle"]
    /\ UNCHANGED <<_task_index, _refresh_count, _live_render, now, result,
                   created, removed, history, before_add, colVars, done, cursor, auto_refresh, session>>

\* RefreshThread.run(), line 210: done.wait(...) returns True when the flag
\* is set (the loop ends) and False on the timeout (a refresh comes next)
RefreshThread_wait ==
    /\ pc[Worker] = "wait"
    /\ IF done THEN pc' = [pc EXCEPT ![Worker] = "terminated"]
       ELSE /\ _refresh_count < MaxRefresh
            /\ pc' = [pc EXCEPT ![Worker] = "refresh"]
    /\ UNCHANGED <<_tasks, _task_index, _refresh_count, _live_render, now, result,
                   created, removed, history, before_add, colVars, _lock, local, done, cursor,
                   auto_refresh, session>>

\* RefreshThread.run(), line 211: refresh() begins and takes the lock
RefreshThread_refresh_acquire ==
    /\ pc[Worker] = "refresh"
    /\ LockFree(Worker)
    /\ _lock' = Acquire(Worker)
    /\ pc' = [pc EXCEPT ![Worker] = "render"]
    /\ session' = [session EXCEPT
                     !.last_refresh = "worker",
                     !.after_set = IF done THEN @ + 1 ELSE @]
    /\ UNCHANGED <<_tasks, _task_index, _refresh_count, _live_render, now, result,
                   created, removed, history, before_add, colVars, local, done, cursor, auto_refresh>>

\* refresh(), lines 353-355, in the worker: an exception of the renderer
\* leaves the with block and ends the thread
RefreshThread_refresh_render(renderer_raises) ==
    /\ pc[Worker] = "render"
    /\ _live_render' = Progress__table(_tasks)
    /\ _lock' = Release(Worker)
    /\ IF renderer_raises
       THEN /\ pc' = [pc EXCEPT ![Worker] = "terminated"]
            /\ UNCHANGED _refresh_count
       ELSE /\ pc' = [pc EXCEPT ![Worker] = "wait"]
            /\ _refresh_count' = _refresh_count + 1
    /\ UNCHANGED <<_tasks, _task_index, now, result, created, removed, history, before_add, colVars,
                   local, done, cursor, auto_refresh, session>>

NoSession == [exit |-> <<>>, raised |-> FALSE, after_set |-> 0,
              last_refresh |-> "none"]

----------------------------------------------------------------------------
(* SpecThreads: NumThreads threads each call update(0, advance=1)          *)
(* CallsPerThread times on one task while the worker refreshes             *)

InitThreads ==
    /\ _tasks = AddTaskStore(<<>>, 0, "X", TRUE, 3, 0, TRUE, {}, 0, 0)
    /\ _task_index = 1
    /\ _refresh_count = 1
    /\ _live_render = Progress__table(_tasks)
    /\ now = 0
    /\ result = Result("add_task", "", Some(0))
    /\ created = 1
    /\ removed = {}
    /\ history = {<<0, 0>>}
    /\ _lock = [owner |-> None, count |-> 0]
    /\ pc = [t \in {Worker} \cup Threads |-> IF t = Worker THEN "wait" ELSE "idle"]
    /\ local = [t \in Threads |-> NoLocals]
    /\ done = FALSE
    /\ cursor = FALSE
    /\ auto_refresh = TRUE
    /\ session = NoSession
    /\ before_add = None
    /\ _renderable_cache = <<>>
    /\ column_call = <<>>

NextThreads ==
    \/ \E t \in Threads : update_time(t, CallsPerThread)
    \/ \E t \in Threads : update_acquire(t)
    \/ \E t \in Threads : update_lookup(t, 0, None)
    \/ \E t \in Threads : update_load(t, 0, Some(1))
    \/ \E t \in Threads : update_store(t, 0, Some(1))
    \/ \E t \in Threads : update_rest(t, 0, None, None, {})
    \/ RefreshThread_wait
    \/ RefreshThread_refresh_acquire
    \/ \E renderer_raises \in BOOLEAN : RefreshThread_refresh_render(renderer_raises)

SpecThreads == InitThreads /\ [][NextThreads]_vars

----------------------------------------------------------------------------
(* The session: Progress.__enter__ and Progress.__exit__ in the owner      *)
(* thread.  session.exit lists the steps the current __exit__ completed,    *)
(* session.raised whether one of its steps raised.                          *)

\* __exit__ without its finally block: the exception leaves __exit__ at once
AfterRaise_NoFinally == "exited"

\* __exit__, lines 277-278: where an exception raised in the try block goes
AfterRaise == "x_cursor"

\* a join() that does not wait for the worker
JoinReturns_NoWait == TRUE

\* Thread.join() returns: the worker's run() has ended
JoinReturns == pc[Worker] = "terminated"

ExitStep(name) == [session EXCEPT !.exit = Append(@, name)]
ExitRaise == [session EXCEPT !.raised = TRUE]

\* __enter__, lines 264-268
Progress_enter ==
    /\ pc[Main] = "out"
    /\ cursor' = FALSE
    /\ IF auto_refresh
       THEN /\ done' = FALSE
            /\ pc' = [pc EXCEPT ![Main] = "in", ![Worker] = "wait"]
       ELSE /\ pc' = [pc EXCEPT ![Main] = "in"]
            /\ UNCHANGED done
    /\ UNCHANGED <<_tasks, _task_index, _refresh_count, _live_render, now, result,
                   created, removed, history, before_add, colVars, _lock, local, auto_refresh, session>>

\* refresh() called by the owner inside the session: takes the lock ...
Progress_refresh_acquire ==
    /\ pc[Main] = "in"
    /\ _refresh_count < MaxRefresh
    /\ LockFree(Main)
    /\ _lock' = Acquire(Main)
    /\ pc' = [pc EXCEPT ![Main] = "in_render"]
    /\ session' = [session EXCEPT !.last_refresh = "owner"]
    /\ UNCHANGED <<_tasks, _task_index, _refresh_count, _live_render, now, result,
                   created, removed, history, before_add, colVars, local, done, cursor, auto_refresh>>

\* ... renders and releases it; an exception leaves the with statement of
\* the session, which calls __exit__
Progress_refresh_render(renderer_raises) ==
    /\ pc[Main] = "in_render"
    /\ _live_render' = Progress__table(_tasks)
    /\ _lock' = Release(Main)
    /\ IF renderer_raises
       THEN /\ pc' = [pc EXCEPT ![Main] = IF auto_refresh THEN "x_set"
                                           ELSE "x_refresh"]
            /\ UNCHANGED _refresh_count
       ELSE /\ pc' = [pc EXCEPT ![Main] = "in"]
            /\ _refresh_count' = _refresh_count + 1
    /\ UNCHANGED <<_tasks, _task_index, now, result, created, removed, history, before_add, colVars,
                   local, done, cursor, auto_refresh, session>>

\* __exit__, lines 271-272
Progress_exit ==
    /\ pc[Main] = "in"
    /\ pc' = [pc EXCEPT ![Main] = IF auto_refresh THEN "x_set" ELSE "x_refresh"]
    /\ UNCHANGED <<_tasks, _task_index, _refresh_count, _live_render, now, result,
                   created, removed, history, before_add, colVars, _lock, local, done, cursor,
                   auto_refresh, session>>

\* RefreshThread.stop(), line 206: self.done.set()
RefreshThread_stop_set ==
    /\ pc[Main] = "x_set"
    /\ done' = TRUE
    /\ pc' = [pc EXCEPT ![Main] = "x_join"]
    /\ UNCHANGED <<_tasks, _task_index, _refresh_count, _live_render, now, result,
                   created, removed, history, before_add, colVars, _lock, local, cursor, auto_refresh,
                   session>>

\* RefreshThread.stop(), line 207: self.join() returns once the worker has
\* ended, or is interrupted by an exception raised in the owner thread
RefreshThread_stop_join(interrupted) ==
    /\ pc[Main] = "x_join"
    /\ IF interrupted
       THEN /\ pc' = [pc EXCEPT ![Main] = AfterRaise]
            /\ session' = ExitRaise
       ELSE /\ JoinReturns
            /\ pc' = [pc EXCEPT ![Main] = "x_refresh"]
            /\ session' = ExitStep("stop")
    /\ UNCHANGED <<_tasks, _task_index, _refresh_count, _live_render, now, result,
                   created, removed, history, before_add, colVars, _lock, local, done, cursor,
                   auto_refresh>>

\* __exit__, line 275: the final refresh() takes the lock ...
Progress_exit_refresh_acquire ==
    /\ pc[Main] = "x_refresh"
    /\ LockFree(Main)
    /\ _lock' = Acquire(Main)
    /\ pc' = [pc EXCEPT ![Main] = "x_render"]
    /\ session' = [session EXCEPT !.last_refresh = "exit"]
    /\ UNCHANGED <<_tasks, _task_index, _refresh_count, _live_render, now, result,
                   created, removed, history, before_add, colVars, local, done, cursor, auto_refresh>>

\* ... renders and releases it
Progress_exit_refresh_render(renderer_raises) ==
    /\ pc[Main] = "x_render"
    /\ _live_render' = Progress__table(_tasks)
    /\ _lock' = Release(Main)
    /\ IF renderer_raises
       THEN /\ pc' = [pc EXCEPT ![Main] = AfterRaise]
            /\ session' = ExitRaise
            /\ UNCHANGED _refresh_count
       ELSE /\ pc' = [pc EXCEPT ![Main] = "x_line"]
            /\ session' = ExitStep("refresh")
            /\ _refresh_count' = _refresh_count + 1
    /\ UNCHANGED <<_tasks, _task_index, now, result, created, removed, history, before_add, colVars,
                   local, done, cursor, auto_refresh>>

\* __exit__, line 276: self.console.line()
Progress_exit_line(console_raises) ==
    /\ pc[Main] = "x_line"
    /\ IF console_raises
       THEN /\ pc' = [pc EXCEPT ![Main] = AfterRaise]
            /\ session' = ExitRaise
       ELSE /\ pc' = [pc EXCEPT ![Main] = "x_cursor"]
            /\ session' = ExitStep("line")
    /\ UNCHANGED <<_tasks, _task_index, _refresh_count, _live_render, now, result,
                   created, removed, history, before_add, colVars, _lock, local, done, cursor,
                   auto_refresh>>

\* __exit__, line 278: self.console.show_cursor(True)
Progress_exit_show_cursor ==
    /\ pc[Main] = "x_cursor"
    /\ cursor' = TRUE
    /\ pc' = [pc EXCEPT ![Main] = "exited"]
    /\ session' = ExitStep("show_cursor")
    /\ UNCHANGED <<_tasks, _task_index, _refresh_count, _live_render, now, result,
                   created, removed, history, before_add, colVars, _lock, local, done, auto_refresh>>

----------------------------------------------------------------------------
(* SpecSession: one session of a Progress holding one visible task, with   *)
(* or without auto_refresh                                                  *)

InitSession ==
    /\ _tasks = AddTaskStore(<<>>, 0, "X", TRUE, 3, 0, TRUE, {}, 0, 0)
    /\ _task_index = 1
    /\ _refresh_count = 1
    /\ _live_render = Progress__table(_tasks)
    /\ now = 0
    /\ result = Result("add_task", "", Some(0))
    /\ created = 1
    /\ removed = {}
    /\ history = {<<0, 0>>}
    /\ _lock = [owner |-> None, count |-> 0]
    /\ pc = [t \in {Worker, Main} |-> IF t = Worker THEN "unstarted" ELSE "out"]
    /\ local = <<>>
    /\ done = FALSE
    /\ cursor = TRUE
    /\ auto_refresh \in BOOLEAN
    /\ session = NoSession
    /\ before_add = None
    /\ _renderable_cache = <<>>
    /\ column_call = <<>>

NextSession ==
    \/ Progress_enter
    \/ Progress_refresh_acquire
    \/ \E renderer_raises \in BOOLEAN : Progress_refresh_render(renderer_raises)
    \/ Progress_exit
    \/ RefreshThread_stop_set
    \/ \E interrupted \in BOOLEAN : RefreshThread_stop_join(interrupted)
    \/ Progress_exit_refresh_acquire
    \/ \E renderer_raises \in BOOLEAN :
          Progress_exit_refresh_render(renderer_raises)
    \/ \E console_raises \in BOOLEAN : Progress_exit_line(console_raises)
    \/ Progress_exit_show_cursor
    \/ RefreshThread_wait
    \/ RefreshThread_refresh_acquire
    \/ \E renderer_raises \in BOOLEAN : RefreshThread_refresh_render(renderer_raises)

SpecSession == InitSession /\ [][NextSession]_vars

----------------------------------------------------------------------------
(* The other methods of Progress as sequences of steps of a thread.  The    *)
(* owner calls them inside its session, a further caller when idle; the     *)
(* caller handles a KeyError, and a call that raised has returned.          *)

AtRest(t) == IF t = Main THEN "in" ELSE "idle"

UidIndex(d, uid) == CHOOSE i \in 1..Len(d) : d[i].uid = uid

\* start(), line 289: with self._lock
start_acquire(t) ==
    /\ pc[t] = AtRest(t)
    /\ LockFree(t)
    /\ _lock' = Acquire(t)
    /\ pc' = [pc EXCEPT ![t] = "start_body"]
    /\ UNCHANGED <<_tasks, _task_index, _refresh_count, _live_render, now, result,
                   created, removed, history, before_add, colVars, local, done,
                   cursor, auto_refresh, session>>

\* start(), lines 290-291, and the end of the with block
start_body(t, task_id) ==
    /\ pc[t] = "start_body"
    /\ IF task_id \in Keys(_tasks)
       THEN _tasks' = SetItem(_tasks, task_id,
                        [GetItem(_tasks, task_id) EXCEPT !.start_time = Some(now)])
       ELSE UNCHANGED _tasks
    /\ _lock' = Release(t)
    /\ pc' = [pc EXCEPT ![t] = AtRest(t)]
    /\ UNCHANGED <<_task_index, _refresh_count, _live_render, now, result,
                   created, removed, history, before_add, colVars, local, done,
                   cursor, auto_refresh, session>>

\* stop(), line 301: task = self._tasks[task_id], before the lock is taken
stop_lookup(t, task_id) ==
    /\ pc[t] = AtRest(t)
    /\ IF task_id \in Keys(_tasks)
       THEN /\ local' = [local EXCEPT ![t].task = Some(GetItem(_tasks, task_id).uid)]
            /\ pc' = [pc EXCEPT ![t] = "stop_acquire"]
       ELSE UNCHANGED <<local, pc>>
    /\ UNCHANGED <<_tasks, _task_index, _refresh_count, _live_render, now, result,
                   created, removed, history, before_add, colVars, _lock, done,
                   cursor, auto_refresh, session>>

\* stop(), line 302: with self._lock
stop_acquire(t) ==
    /\ pc[t] = "stop_acquire"
    /\ LockFree(t)
    /\ _lock' = Acquire(t)
    /\ pc' = [pc EXCEPT ![t] = "stop_body"]
    /\ UNCHANGED <<_tasks, _task_index, _refresh_count, _live_render, now, result,
                   created, removed, history, before_add, colVars, local, done,
                   cursor, auto_refresh, session>>

\* stop(), lines 303-306, on the Task object found at line 301, which may
\* have left the registry since; then the end of the with block
stop_body(t) ==
    /\ pc[t] = "stop_body"
    /\ IF \E i \in 1..Len(_tasks) : _tasks[i].uid = local[t].task[1]
       THEN LET i == UidIndex(_tasks, local[t].task[1])
                task == _tasks[i]
                current_time == now
                t1 == IF task.start_time = None
                      THEN [task EXCEPT !.start_time = Some(current_time)]
                      ELSE task
            IN  _tasks' = [_tasks EXCEPT
                             ![i] = [t1 EXCEPT !.stop_time = Some(current_time)]]
       ELSE UNCHANGED _tasks
    /\ _lock' = Release(t)
    /\ local' = [local EXCEPT ![t].task = None]
    /\ pc' = [pc EXCEPT ![t] = AtRest(t)]
    /\ UNCHANGED <<_task_index, _refresh_count, _live_render, now, result,
                   created, removed, history, before_add, colVars, done,
                   cursor, auto_refresh, session>>

\* remove_task(), line 421: with self._lock
remove_task_acquire(t) ==
    /\ pc[t] = AtRest(t)
    /\ LockFree(t)
    /\ _lock' = Acquire(t)
    /\ pc' = [pc EXCEPT ![t] = "remove_body"]
    /\ UNCHANGED <<_tasks, _task_index, _refresh_count, _live_render, now, result,
                   created, removed, history, before_add, colVars, local, done,
                   cursor, auto_refresh, session>>

\* remove_task(), line 422, and the end of the with block
remove_task_body(t, task_id) ==
    /\ pc[t] = "remove_body"
    /\ IF task_id \in Keys(_tasks)
       THEN /\ _tasks' = DelItem(_tasks, task_id)
            /\ removed' = removed \cup {task_id}
       ELSE UNCHANGED <<_tasks, removed>>
    /\ _lock' = Release(t)
    /\ pc' = [pc EXCEPT ![t] = AtRest(t)]
    /\ UNCHANGED <<_task_index, _refresh_count, _live_render, now, result,
                   created, history, before_add, colVars, local, done,
                   cursor, auto_refresh, session>>

\* add_task(), line 401: with self._lock
add_task_acquire(t) ==
    /\ pc[t] = AtRest(t)
    /\ created < MaxAdds
    /\ _refresh_count < MaxRefresh
    /\ LockFree(t)
    /\ _lock' = Acquire(t)
    /\ pc' = [pc EXCEPT ![t] = "add_store"]
    /\ UNCHANGED <<_tasks, _task_index, _refresh_count, _live_render, now, result,
                   created, removed, history, before_add, colVars, local, done,
                   cursor, auto_refresh, session>>

\* add_task(), lines 402-406: the Task is constructed and stored
add_task_store(t, name, total, completed, visible, fields, start_) ==
    /\ pc[t] = "add_store"
    /\ _tasks' = AddTaskStore(_tasks, _task_index, name, FALSE, total, completed,
                              visible, fields, created, now)
    /\ created' = created + 1
    /\ history' = history \cup {<<_task_index, created>>}
    /\ pc' = [pc EXCEPT ![t] = IF start_ THEN "add_start_acquire"
                               ELSE "add_refresh_acquire"]
    /\ UNCHANGED <<_task_index, _refresh_count, _live_render, now, result,
                   removed, before_add, colVars, _lock, local, done,
                   cursor, auto_refresh, session>>

\* add_task(), line 407: self.start(...) takes the lock the thread holds ...
add_task_start_acquire(t) ==
    /\ pc[t] = "add_start_acquire"
    /\ LockFree(t)
    /\ _lock' = Acquire(t)
    /\ pc' = [pc EXCEPT ![t] = "add_start_body"]
    /\ UNCHANGED <<_tasks, _task_index, _refresh_count, _live_render, now, result,
                   created, removed, history, before_add, colVars, local, done,
                   cursor, auto_refresh, session>>

\* ... sets start_time and releases it once
add_task_start_body(t) ==
    /\ pc[t] = "add_start_body"
    /\ _tasks' = SetItem(_tasks, _task_index,
                    [GetItem(_tasks, _task_index) EXCEPT !.start_time = Some(now)])
    /\ _lock' = Release(t)
    /\ pc' = [pc EXCEPT ![t] = "add_refresh_acquire"]
    /\ UNCHANGED <<_task_index, _refresh_count, _live_render, now, result,
                   created, removed, history, before_add, colVars, local, done,
                   cursor, auto_refresh, session>>

\* add_task(), line 408: self.refresh() takes the lock the thread holds ...
add_task_refresh_acquire(t) ==
    /\ pc[t] = "add_refresh_acquire"
    /\ LockFree(t)
    /\ _lock' = Acquire(t)
    /\ pc' = [pc EXCEPT ![t] = "add_render"]
    /\ UNCHANGED <<_tasks, _task_index, _refresh_count, _live_render, now, result,
                   created, removed, history, before_add, colVars, local, done,
                   cursor, auto_refresh, session>>

\* ... renders and releases it once; an exception of the renderer leaves the
\* with block of add_task as well, without reaching line 412
add_task_refresh_render(t, renderer_raises) ==
    /\ pc[t] = "add_render"
    /\ _live_render' = Progress__table(_tasks)
    /\ IF renderer_raises
       THEN /\ _lock' = [owner |-> None, count |-> 0]
            /\ pc' = [pc EXCEPT ![t] = AtRest(t)]
            /\ UNCHANGED _refresh_count
       ELSE /\ _lock' = Release(t)
            /\ pc' = [pc EXCEPT ![t] = "add_return"]
            /\ _refresh_count' = _refresh_count + 1
    /\ UNCHANGED <<_tasks, _task_index, now, result, created, removed, history,
                   before_add, colVars, local, done, cursor, auto_refresh, session>>

\* add_task(), lines 409-412: the return, its finally, the end of the with
add_task_return(t) ==
    /\ pc[t] = "add_return"
    /\ _task_index' = NextTaskIndex(_task_index, TRUE)
    /\ _lock' = Release(t)
    /\ pc' = [pc EXCEPT ![t] = AtRest(t)]
    /\ UNCHANGED <<_tasks, _refresh_count, _live_render, now, result,
                   created, removed, history, before_add, colVars, local, done,
                   cursor, auto_refresh, session>>

----------------------------------------------------------------------------
(* SpecCalls: inside a session with auto_refresh the owner calls add_task,  *)
(* start, stop, remove_task and refresh and leaves the session, thread 2    *)
(* calls update, and the worker refreshes                                   *)

\* one further caller
Callers == {2}

InitCalls ==
    /\ _tasks = AddTaskStore(<<>>, 0, "X", TRUE, 3, 0, TRUE, {}, 0, 0)
    /\ _task_index = 1
    /\ _refresh_count = 1
    /\ _live_render = Progress__table(_tasks)
    /\ now = 0
    /\ result = Result("add_task", "", Some(0))
    /\ created = 1
    /\ removed = {}
    /\ history = {<<0, 0>>}
    /\ _lock = [owner |-> None, count |-> 0]
    /\ pc = [t \in {Worker} \cup Threads |->
               IF t = Worker THEN "wait" ELSE AtRest(t)]
    /\ local = [t \in Threads |-> NoLocals]
    /\ done = FALSE
    /\ cursor = FALSE
    /\ auto_refresh = TRUE
    /\ session = NoSession
    /\ before_add = None
    /\ _renderable_cache = <<>>
    /\ column_call = <<>>

OwnerNext ==
    \/ add_task_acquire(Main)
    \/ \E start_ \in BOOLEAN :
          add_task_store(Main, "X", 1, 0, TRUE, {}, start_)
    \/ add_task_start_acquire(Main)
    \/ add_task_start_body(Main)
    \/ add_task_refresh_acquire(Main)
    \/ \E renderer_raises \in BOOLEAN :
          add_task_refresh_render(Main, renderer_raises)
    \/ add_task_return(Main)
    \/ start_acquire(Main)
    \/ start_body(Main, 0)
    \/ stop_lookup(Main, 0)
    \/ stop_acquire(Main)
    \/ stop_body(Main)
    \/ remove_task_acquire(Main)
    \/ remove_task_body(Main, 0)
    \/ Progress_refresh_acquire
    \/ \E renderer_raises \in BOOLEAN : Progress_refresh_render(renderer_raises)
    \/ Progress_exit
    \/ RefreshThread_stop_set
    \/ RefreshThread_stop_join(FALSE)
    \/ Progress_exit_refresh_acquire
    \/ \E renderer_raises \in BOOLEAN :
          Progress_exit_refresh_render(renderer_raises)
    \/ \E console_raises \in BOOLEAN : Progress_exit_line(console_raises)
    \/ Progress_exit_show_cursor

CallerNext(t) ==
    \/ update_time(t, CallsPerThread)
    \/ update_acquire(t)
    \/ update_lookup(t, 0, None)
    \/ update_load(t, 0, Some(1))
    \/ update_store(t, 0, Some(1))
    \/ update_rest(t, 0, None, None, {})

WorkerNext ==
    \/ RefreshThread_wait
    \/ RefreshThread_refresh_acquire
    \/ \E renderer_raises \in BOOLEAN : RefreshThread_refresh_render(renderer_raises)

NextCalls ==
    \/ OwnerNext
    \/ \E t \in Callers : CallerNext(t)
    \/ WorkerNext

SpecCalls == InitCalls /\ [][NextCalls]_vars

\* the threads are scheduled fairly, and a thread that finds the lock free
\* again and again gets it
SpecCallsFair ==
    /\ SpecCalls
    /\ SF_vars(OwnerNext)
    /\ \A t \in Callers : SF_vars(CallerNext(t))
    /\ SF_vars(WorkerNext)

----------------------------------------------------------------------------

(* SpecTimed: the threads of SpecThreads while time passes *)

NextTimed ==
    \/ NextThreads
    \/ Tick(TaskMaxTime)

SpecTimed == InitThreads /\ [][NextTimed]_vars

----------------------------------------------------------------------------

(* Claims checked under Spec *)

\* C2: handle allocation is strictly increasing and never reused: over any
\* sequence of add_task and remove_task calls, where add_task may return or
\* raise because its refresh failed, no handle is assigned to two different
\* tasks, every handle add_task returns is greater than every handle stored
\* before, and add_task never overwrites a task already in the registry.
C2_HandlesNeverReused ==
    [][created' = created + 1 =>
         /\ \A p, q \in history' : p[1] = q[1] => p[2] = q[2]
         /\ result'.value # None =>
                \A p \in history : result'.value[1] > p[1]
         /\ Len(_tasks') = Len(_tasks) + 1
         /\ \A i \in 1..Len(_tasks) : _tasks'[i] = _tasks[i]]_vars

\* C3: start, stop, update and remove_task on a TaskID that is not in the
\* registry (never allocated, or removed) fail with KeyError and leave the
\* task mapping and the handle counter unchanged; a handle removed by
\* remove_task is never again a key of the registry.
C3_UnknownIdFailsAndStaysInvalid ==
    [][/\ \A task_id \in TaskIDs \ Keys(_tasks) :
            (\/ Progress_start(task_id)
             \/ Progress_stop(task_id)
             \/ Progress_remove_task(task_id)
             \/ \E visible \in Optional(BOOLEAN), fields \in FieldArgs :
                   Progress_update(task_id, None, None, None, visible, fields,
                                   MaxSamples))
            => /\ result'.exc = "KeyError"
               /\ UNCHANGED <<_tasks, _task_index>>
       /\ removed' \cap Keys(_tasks') = {}]_vars

\* C6: after update(id, visible=v) the task's visible flag equals v, and every
\* refresh builds a grid with exactly one row per visible task, in the
\* insertion order of the tasks (so none for a task made invisible).
C6_UpdateSetsVisible ==
    [][/\ \A task_id \in Keys(_tasks), v \in BOOLEAN, fields \in FieldArgs :
            Progress_update(task_id, None, None, None, Some(v), fields,
                            MaxSamples)
            => GetItem(_tasks', task_id).visible = v
       /\ \A renderer_raises \in BOOLEAN :
            Progress_refresh(renderer_raises)
            => LET shown == [i \in 1..Len(_live_render') |-> _live_render'[i].task]
               IN  /\ \A i \in 1..Len(shown) : shown[i] \in Keys(_tasks)
                   /\ \A i \in 1..Len(_tasks) :
                        _tasks[i].visible
                          <=> \E j \in 1..Len(shown) : shown[j] = _tasks[i].id
                   /\ \A i, j \in 1..Len(shown) :
                        i < j => IndexOf(_tasks, shown[i]) < IndexOf(_tasks, shown[j])
      ]_vars

----------------------------------------------------------------------------
(* Claims checked under SpecTask *)

\* time_remaining as the specification defines it, from the task's speed
SpecifiedTimeRemaining(task) ==
    IF task.completed >= task.total THEN Returns(Some(0))
    ELSE LET speed == Task_speed(task) IN
         IF speed = None \/ speed[1][1] = 0 THEN Returns(None)
         ELSE Returns(Some(RoundHalfEven((task.total - task.completed) * speed[1][2],
                                         speed[1][1])))

\* C7: in every reachable task state, reading time_remaining does not raise
\* and returns 0 if the task is finished, None if speed is None or 0, and
\* round(remaining / speed) otherwise.
C7_TimeRemainingAsSpecified ==
    \A i \in 1..Len(_tasks) :
        Task_time_remaining(_tasks[i]) = SpecifiedTimeRemaining(_tasks[i])

\* C8 (as claimed): in every reachable task state, time_remaining equals 0 if
\* and only if completed >= total.
C8_ZeroIffFinished ==
    \A i \in 1..Len(_tasks) :
        Task_time_remaining(_tasks[i]) = Returns(Some(0))
          <=> _tasks[i].completed >= _tasks[i].total

\* C8 (amended): a task with completed >= total reports time_remaining 0; an
\* unfinished task reports 0 only when its speed is defined and
\* remaining / int(speed) rounds to 0, that is 2 * remaining <= |int(speed)|.
C8_FinishedReportsZero ==
    \A i \in 1..Len(_tasks) :
        LET task == _tasks[i]
            speed == Task_speed(task)
        IN  /\ task.completed >= task.total
                 => Task_time_remaining(task) = Returns(Some(0))
            /\ (task.completed < task.total
                 /\ Task_time_remaining(task) = Returns(Some(0)))
                 => /\ speed # None
                    /\ 2 * (task.total - task.completed)
                         <= Abs(TruncDiv(speed[1][1], speed[1][2]))

\* C8 witness: a started, finished task whose speed is defined and not 0
C8_Witness ==
    \E i \in 1..Len(_tasks) :
        /\ _tasks[i].completed >= _tasks[i].total
        /\ _tasks[i].start_time # None
        /\ Task_speed(_tasks[i]) # None
        /\ Task_speed(_tasks[i])[1][1] # 0

\* C9: in every reachable task state, speed is None exactly when the task has
\* no recorded sample.
C9_SpeedNoneIffNoSamples ==
    \A i \in 1..Len(_tasks) :
        Task_speed(_tasks[i]) = None <=> _tasks[i]._progress = <<>>

\* C10: one update call applies total, then advance, then completed (an
\* absolute completed wins over advance), and appends exactly one sample whose
\* delta is completed-after minus completed-before; so while no sample of a
\* task has been evicted, its sample deltas sum to completed minus the
\* completed value it was created with.
C10_UpdateOrderAndSample ==
    [][/\ \A total \in Optional(UpdateTotals),
             completed \in Optional(UpdateCompleted),
             advance \in Optional(UpdateAdvances) :
            Progress_update(0, total, completed, advance, None, {},
                            TaskMaxSamples)
            => LET before == GetItem(_tasks, 0)
                   after == GetItem(_tasks', 0)
                   n == Len(after._progress)
                   m == Len(before._progress)
               IN  /\ after.total = IF total # None THEN total[1]
                                     ELSE before.total
                   /\ after.completed =
                        IF completed # None THEN completed[1]
                        ELSE IF advance # None
                             THEN before.completed + advance[1]
                             ELSE before.completed
                   /\ n >= 1 /\ n <= m + 1
                   /\ after._progress[n].completed
                        = after.completed - before.completed
                   /\ SubSeq(after._progress, 1, n - 1)
                        = SubSeq(before._progress, m - n + 2, m)
       /\ \A i \in 1..Len(_tasks') :
            ~_tasks'[i].evicted
            => SumCompleted(_tasks'[i]._progress)
                 = _tasks'[i].completed - _tasks'[i].completed0]_vars

\* C10 witness: two samples recorded, none evicted, completed moved
C10_Witness ==
    \E i \in 1..Len(_tasks) :
        /\ Len(_tasks[i]._progress) >= 2
        /\ ~_tasks[i].evicted
        /\ _tasks[i].completed # _tasks[i].completed0

----------------------------------------------------------------------------
(* Claims checked under SpecThreads *)

AllCallsReturned ==
    \A t \in Threads : pc[t] = "idle" /\ local[t].calls = CallsPerThread

\* C1: no lost updates: when NumThreads threads each make CallsPerThread
\* calls update(id, advance=1) on one task, in every interleaving with each
\* other and with the worker's refreshes, completed is its initial value plus
\* NumThreads * CallsPerThread once all calls have returned.
C1_NoLostUpdates ==
    AllCallsReturned
    => GetItem(_tasks, 0).completed
         = GetItem(_tasks, 0).completed0 + NumThreads * CallsPerThread

\* C1 witness: all calls returned and the worker refreshed in between
C1_Witness ==
    /\ AllCallsReturned
    /\ _refresh_count > 1
    /\ Len(GetItem(_tasks, 0)._progress) >= 2

----------------------------------------------------------------------------
(* Claims checked under SpecSession *)

\* the steps of an __exit__ in which nothing raises
NormalExit ==
    IF auto_refresh THEN <<"stop", "refresh", "line", "show_cursor">>
    ELSE <<"refresh", "line", "show_cursor">>

StopReturned == Len(session.exit) >= 1 /\ session.exit[1] = "stop"

ExitRefreshBegun ==
    \/ pc[Main] = "x_render"
    \/ \E i \in 1..Len(session.exit) : session.exit[i] = "refresh"

\* C4: once RefreshThread.stop() has set the stop signal the worker begins at
\* most one further refresh(); after stop() has returned the worker has ended
\* and calls refresh() no more; so once the final refresh() of __exit__ has
\* begun it is the last refresh, with no tick of the worker after it.
C4_StopGuarantee ==
    /\ session.after_set <= 1
    /\ StopReturned => pc[Worker] = "terminated"
    /\ (auto_refresh /\ ExitRefreshBegun) => session.last_refresh = "exit"

\* C4 witness: a session exit completed, in which the worker began one
\* refresh after the stop signal
C4_Witness ==
    /\ auto_refresh
    /\ pc[Main] = "exited"
    /\ session.exit = NormalExit
    /\ session.after_set = 1
    /\ session.last_refresh = "exit"

\* C5: every execution of __exit__ ends with the cursor shown, and
\* show_cursor(True) is its last step, whether or not the scheduler stop, the
\* final refresh or the newline raised; when nothing raises the steps are:
\* stop the scheduler (if auto_refresh), refresh, newline, show the cursor.
C5_CursorRestoredLast ==
    pc[Main] = "exited"
    => /\ cursor
       /\ session.exit # <<>>
       /\ session.exit[Len(session.exit)] = "show_cursor"
       /\ \A i \in 1..(Len(session.exit) - 1) : session.exit[i] # "show_cursor"
       /\ ~session.raised => session.exit = NormalExit

\* C5 witness: an __exit__ that ended after its final refresh raised
C5_Witness ==
    /\ pc[Main] = "exited"
    /\ session.raised
    /\ session.exit = IF auto_refresh THEN <<"stop", "show_cursor">>
                      ELSE <<"show_cursor">>
    /\ cursor

----------------------------------------------------------------------------
\* C14: add_task followed immediately by remove_task on the handle it returned
\* restores the list of task ids to its value and order before the add_task,
\* leaves every other task unchanged, and does not make the removed handle
\* available to a later add_task.
C14_AddThenRemoveRestores ==
    [][/\ \A task_id \in TaskIDs :
            (/\ before_add # None
             /\ result.value = Some(task_id)
             /\ Progress_remove_task(task_id))
            => /\ Progress_tasks_ids(_tasks') = Progress_tasks_ids(before_add[1])
               /\ _tasks' = before_add[1]
               /\ _task_index' > task_id
       /\ _task_index' >= _task_index]_vars

----------------------------------------------------------------------------

(* Claims checked under SpecFinished *)

----------------------------------------------------------------------------
(* Claims checked under SpecElapsed *)

\* C12: stop(id) sets stop_time to now and leaves a start_time that is set
\* unchanged; on a task never started it also sets start_time to the same now,
\* so that start_time = stop_time and elapsed is 0; and as long as neither
\* start nor stop is called again, elapsed stays at stop_time - start_time.
C12_StopFreezesElapsed ==
    [][LET task == GetItem(_tasks, 0)
           stopped == GetItem(_tasks', 0)
       IN  /\ Progress_stop(0) =>
                /\ stopped.stop_time = Some(now)
                /\ task.start_time # None =>
                     stopped.start_time = task.start_time
                /\ task.start_time = None =>
                     /\ stopped.start_time = Some(now)
                     /\ stopped.start_time = stopped.stop_time
                     /\ Task_elapsed(stopped, now') = Some(0)
           /\ (task.stop_time # None /\ ~Progress_start(0) /\ ~Progress_stop(0)) =>
                /\ Task_elapsed(stopped, now') = Task_elapsed(task, now)
                /\ Task_elapsed(stopped, now')
                     = Some(stopped.stop_time[1] - stopped.start_time[1])]_vars

\* a task stopped at time 1 without having been started, seen at time 2
C12_Witness ==
    /\ now = 2
    /\ GetItem(_tasks, 0).start_time = Some(1)
    /\ GetItem(_tasks, 0).stop_time = Some(1)
    /\ Task_elapsed(GetItem(_tasks, 0), now) = Some(0)

----------------------------------------------------------------------------
\* C20: over any sequence of add_task, start and stop calls on a task,
\* elapsed is None exactly as long as the task was never started and is
\* otherwise not negative, also after start, stop, start; start on a task
\* never started makes elapsed 0 at that instant, and as time passes elapsed
\* does not decrease.
C20_ElapsedWellDefined ==
    [][LET task == GetItem(_tasks, 0)
           after == GetItem(_tasks', 0)
           elapsed == Task_elapsed(task, now)
           elapsed_after == Task_elapsed(after, now')
       IN  /\ (elapsed_after = None) <=> (after.start_time = None)
           /\ elapsed # None => elapsed_after # None
           /\ elapsed_after # None => elapsed_after[1] >= 0
           /\ (task.start_time = None /\ Progress_start(0))
                => elapsed_after = Some(0)
           /\ (elapsed # None /\ now' > now)
                => elapsed_after[1] >= elapsed[1]]_vars

----------------------------------------------------------------------------

(* Claims checked under SpecPercent *)

\* C13: for every task in every reachable state, whatever the signs of total
\* and completed and also when completed exceeds total, percentage is defined
\* and lies between 0 and 100, and it is 0 when total is 0.
C13_PercentageInRange ==
    \A task_id \in Keys(_tasks) :
        LET task == GetItem(_tasks, task_id)
            percentage == Task_percentage(task)
        IN  /\ percentage[2] > 0
            /\ 0 <= percentage[1]
            /\ percentage[1] <= 100 * percentage[2]
            /\ task.total = 0 => percentage[1] = 0

\* after an update, a negative total with completed beyond it: the quotient
\* is above 100 and the percentage is 100
C13_Witness ==
    LET task == GetItem(_tasks, 0)
    IN  /\ task._progress # <<>>
        /\ task.total < 0
        /\ task.completed < task.total
        /\ Task_percentage(task) = <<100, 1>>

----------------------------------------------------------------------------
(* Claims checked under SpecTimed *)

\* C15: window eviction: when an update call on a task returns, in any
\* interleaving of update calls of several threads and of refreshes, no sample
\* kept in the task's sample sequence has a timestamp below that update's time
\* minus speed_estimate_period.
C15_WindowEviction ==
    [][\A t \in Threads :
          update_rest(t, 0, None, None, {})
          => \A i \in 1..Len(GetItem(_tasks', 0)._progress) :
                GetItem(_tasks', 0)._progress[i].timestamp
                  >= local[t].current_time - speed_estimate_period]_vars

\* C16: in every reachable state, under every interleaving of concurrent
\* update calls on one task, the timestamps of its samples do not decrease
\* from front to back, so last.timestamp - first.timestamp is not negative.
C16_SamplesTimeOrdered ==
    \A task_id \in Keys(_tasks) :
        LET progress == GetItem(_tasks, task_id)._progress
        IN  /\ \A i, j \in 1..Len(progress) :
                  i < j => progress[i].timestamp <= progress[j].timestamp
            /\ progress # <<>> =>
                  progress[Len(progress)].timestamp - progress[1].timestamp >= 0

----------------------------------------------------------------------------
(* Claims checked under SpecCalls *)

\* thread t is inside a refresh pass
Rendering(t) == pc[t] \in {"render", "in_render", "x_render", "add_render"}

\* thread t is inside the changes of update, start, stop, add_task or
\* remove_task
Mutating(t) ==
    pc[t] \in {"lookup", "load", "store", "rest", "start_body", "stop_body",
               "remove_body", "add_store", "add_start_acquire",
               "add_start_body", "add_refresh_acquire", "add_render",
               "add_return"}

\* a step of thread t that reads or writes _tasks, _task_index or
\* _refresh_count
AccessStep(t) ==
    \/ start_body(t, 0)
    \/ stop_lookup(t, 0)
    \/ stop_body(t)
    \/ remove_task_body(t, 0)
    \/ \E start_ \in BOOLEAN : add_task_store(t, "X", 1, 0, TRUE, {}, start_)
    \/ add_task_start_body(t)
    \/ \E renderer_raises \in BOOLEAN : add_task_refresh_render(t, renderer_raises)
    \/ add_task_return(t)
    \/ update_lookup(t, 0, None)
    \/ update_load(t, 0, Some(1))
    \/ update_store(t, 0, Some(1))
    \/ update_rest(t, 0, None, None, {})
    \/ /\ t = Main
       /\ \E renderer_raises \in BOOLEAN :
             \/ Progress_refresh_render(renderer_raises)
             \/ Progress_exit_refresh_render(renderer_raises)
    \/ /\ t = Worker
       /\ \E renderer_raises \in BOOLEAN :
             RefreshThread_refresh_render(renderer_raises)

\* C17: in every interleaving of the owner's add_task, start, stop, update,
\* remove_task and refresh with the worker's ticks, two refresh passes never
\* overlap, no refresh pass runs while an update, start, stop, add_task or
\* remove_task of another thread is partway through its changes, and every
\* read and write of the task mapping, the handle counter and the refresh
\* counter is made by the thread that holds the lock.
C17_LockDiscipline ==
    [][/\ \A t, u \in {Worker} \cup Threads :
            (t # u /\ Rendering(t)) => (~Rendering(u) /\ ~Mutating(u))
       /\ \A t \in {Worker} \cup Threads :
            AccessStep(t) => _lock.owner = Some(t)]_vars

\* thread t is not inside a call
Resting(t) == pc[t] \in {"in", "idle", "exited"}

\* C19: with a renderer that returns or raises and fair scheduling, every
\* call of a thread eventually returns in every interleaving with the worker,
\* also add_task, which takes the lock again in start and in refresh; and
\* RefreshThread.stop() and __exit__ eventually return, also when the worker
\* has ended before because a refresh raised in it.
C19_EveryCallReturns ==
    \A t \in {Main} \cup Callers : [](~Resting(t) => <>Resting(t))

\* add_task has gone through start and refresh and returned, the worker has
\* ended, and __exit__ has returned
C19_Witness ==
    /\ created = 2
    /\ _task_index = 2
    /\ \E i \in 1..Len(_tasks) : _tasks[i].uid = 1 /\ _tasks[i].start_time # None
    /\ pc[Worker] = "terminated"
    /\ pc[Main] = "exited"
    /\ _lock.owner = None

----------------------------------------------------------------------------
(* Claims checked under SpecColumn *)

\* C18: for a column with max_refresh = d and a task id, an invocation less
\* than d after the last invocation that recomputed for that id returns the
\* cached fragment without calling render, even if the task has changed; an
\* invocation at least d after it calls render and replaces the cache entry
\* with the new time and value; the entries of the other task ids are neither
\* returned nor replaced; a column without max_refresh calls render on every
\* invocation.
C18_Throttling ==
    [][\A column \in Columns, task_id \in 0..1 :
          ProgressColumn_call(column, task_id)
          => LET d == max_refresh(column)
                 entry == _renderable_cache[column][task_id]
                 call == column_call'
             IN  /\ (d # None /\ entry # None /\ now - entry[1][1] < d[1])
                      => /\ ~call.rendered
                         /\ call.outcome = Returns(entry[1][2])
                         /\ UNCHANGED _renderable_cache
                 /\ (d # None /\ entry # None /\ now - entry[1][1] >= d[1])
                      => /\ call.rendered
                         /\ call.outcome.exc = ""
                         /\ _renderable_cache'[column][task_id]
                              = Some(<<now, call.outcome.value>>)
                 /\ d = None => call.rendered
                 /\ \A other \in Columns, id \in 0..1 :
                      (other # column \/ id # task_id)
                      => _renderable_cache'[other][id] = _renderable_cache[other][id]]_vars

====
